---- MODULE Spec2Model ----
(***************************************************************************)
(* Model of the YouTube transcript collector (src/app.py and               *)
(* src/yt_transcripts.py).                                                 *)
(*                                                                         *)
(* Text is modelled as a sequence of one-character strings, so that the    *)
(* string operations of the code (split, strip, startswith, substring      *)
(* tests, regular-expression substitution, join) are computed and not      *)
(* assumed.                                                                *)
(***************************************************************************)
EXTENDS Integers, Sequences, FiniteSets, TLC

VARIABLES
    vtt_content,    \* clean_vtt_content: the argument of the call under test
    cleaned,        \* clean_vtt_content: the value returned for vtt_content
    recleaned,      \* clean_vtt_content applied to its own output
    clean_pc,       \* "input" -> "cleaned" -> "recleaned"
    videos,         \* api_get_transcripts: the submitted list of descriptors
    pc,             \* api_get_transcripts: position of the request handler
    future,         \* the executor's futures, one per submitted descriptor
    call,           \* get_video_transcript: position and locals of each call
    fs,             \* the caption files in /tmp
    progress_queue, \* the Queue the calls put their events on
    log_messages,   \* api_get_transcripts: log_messages
    results,        \* api_get_transcripts: results
    errors,         \* api_get_transcripts: errors
    completed,      \* api_get_transcripts: completed
    response,       \* what the request handler returned
    cli_args,       \* yt_transcripts.py: the arguments of the function under test
    cli_out,        \* yt_transcripts.py: the value it returned
    cli_pc          \* "idle", or "input" -> "returned"

clean_vars == <<vtt_content, cleaned, recleaned, clean_pc>>
batch_vars == <<videos, pc, future, call, fs, progress_queue, log_messages,
                results, errors, completed, response>>

cli_vars == <<cli_args, cli_out, cli_pc>>

(***************************************************************************)
(* Bounds of the model.                                                    *)
(***************************************************************************)
MaxRawLen == 5      \* longest text enumerated character by character
MaxRawLines == 6    \* most lines of a text enumerated line by line
MaxVideos == 2      \* most descriptors in a submitted list
MaxMarkers == 3     \* most diagnostic markers in one stderr text
MaxListed == 3      \* most videos in an enumerated listing

(***************************************************************************)
(* Python string operations, as the code uses them.                        *)
(***************************************************************************)
NL == "\n"
Whitespace == {" ", "\t", "\r", NL}
Digits == {"0", "1", "2", "3", "4", "5", "6", "7", "8", "9"}

SetMin(S) == CHOOSE x \in S : \A y \in S : x <= y
SetMax(S) == CHOOSE x \in S : \A y \in S : x >= y

\* str.split(sep) for a one-character separator: the pieces between
\* separators, empty pieces kept ("".split(sep) is one empty piece).
RECURSIVE split(_, _)
split(s, sep) ==
    LET seps == {i \in 1..Len(s) : s[i] = sep} IN
    IF seps = {} THEN <<s>>
    ELSE LET i == SetMin(seps) IN
         <<SubSeq(s, 1, i - 1)>> \o split(SubSeq(s, i + 1, Len(s)), sep)

\* str.strip(): leading and trailing whitespace removed.
strip(s) ==
    LET keep == {i \in 1..Len(s) : s[i] \notin Whitespace} IN
    IF keep = {} THEN <<>> ELSE SubSeq(s, SetMin(keep), SetMax(keep))

\* str.startswith(prefix)
startswith(s, prefix) ==
    Len(s) >= Len(prefix) /\ SubSeq(s, 1, Len(prefix)) = prefix

\* needle in s
contains(s, needle) ==
    \E i \in 1..(Len(s) - Len(needle) + 1) :
        SubSeq(s, i, i + Len(needle) - 1) = needle

\* sep.join(parts)
RECURSIVE join(_, _)
join(sep, parts) ==
    IF Len(parts) = 0 THEN <<>>
    ELSE IF Len(parts) = 1 THEN parts[1]
    ELSE parts[1] \o sep \o join(sep, Tail(parts))

\* Where the match of <[^>]+> that starts at s[i] = "<" ends: at the first ">"
\* after i, provided at least one character lies between; 0 when there is
\* no match starting at i.
TagEnd(s, i) ==
    LET closes == {j \in (i + 1)..Len(s) : s[j] = ">"} IN
    IF closes = {} THEN 0
    ELSE IF SetMin(closes) = i + 1 THEN 0
    ELSE SetMin(closes)

\* re.sub(r'<[^>]+>', '', s): leftmost non-overlapping matches removed.
RECURSIVE SubTagsFrom(_, _)
SubTagsFrom(s, i) ==
    IF i > Len(s) THEN <<>>
    ELSE IF s[i] = "<" /\ TagEnd(s, i) # 0 THEN SubTagsFrom(s, TagEnd(s, i) + 1)
    ELSE <<s[i]>> \o SubTagsFrom(s, i + 1)

re_sub_tags(s) == SubTagsFrom(s, 1)

\* A match of <\d{2}:\d{2}:\d{2}\.\d{3}> starting at s[i] (14 characters).
TimestampAt(s, i) ==
    /\ i + 13 <= Len(s)
    /\ s[i] = "<" /\ s[i + 13] = ">"
    /\ s[i + 3] = ":" /\ s[i + 6] = ":" /\ s[i + 9] = "."
    /\ \A k \in {1, 2, 4, 5, 7, 8, 10, 11, 12} : s[i + k] \in Digits

\* re.sub(r'<\d{2}:\d{2}:\d{2}\.\d{3}>', '', s)
RECURSIVE SubTimestampsFrom(_, _)
SubTimestampsFrom(s, i) ==
    IF i > Len(s) THEN <<>>
    ELSE IF TimestampAt(s, i) THEN SubTimestampsFrom(s, i + 14)
    ELSE <<s[i]>> \o SubTimestampsFrom(s, i + 1)

re_sub_timestamps(s) == SubTimestampsFrom(s, 1)

(***************************************************************************)
(* clean_vtt_content (the same function in app.py and yt_transcripts.py).  *)
(***************************************************************************)
WEBVTT == <<"W", "E", "B", "V", "T", "T">>
KindPrefix == <<"K", "i", "n", "d", ":">>
LanguagePrefix == <<"L", "a", "n", "g", "u", "a", "g", "e", ":">>
NotePrefix == <<"N", "O", "T", "E">>
Arrow == <<"-", "-", ">">>

\* The lines the loop skips before any cleaning (both `continue` branches).
SkippedLine(line) ==
    \/ strip(line) = <<>>
    \/ startswith(line, WEBVTT)
    \/ contains(line, Arrow)
    \/ startswith(line, KindPrefix)
    \/ startswith(line, LanguagePrefix)
    \/ startswith(line, NotePrefix)

\* Variant of CleanLine: whitespace trimmed before the tags are removed.
CleanLineStripFirst(line) == re_sub_timestamps(re_sub_tags(strip(line)))

\* The two re.sub calls and the strip applied to a kept line.
CleanLine(line) == strip(re_sub_timestamps(re_sub_tags(line)))

\* Variant of KeepsLine: the membership test against `seen` is left out.
KeepsLineNoSeen(clean, seen) == clean # <<>>

\* `if clean and clean not in seen`
KeepsLine(clean, seen) == clean # <<>> /\ clean \notin seen

\* The for loop over the lines, from line i on, with its two accumulators.
RECURSIVE CleanLoop(_, _, _, _)
CleanLoop(lines, i, seen, text_lines) ==
    IF i > Len(lines) THEN text_lines
    ELSE IF SkippedLine(lines[i]) THEN CleanLoop(lines, i + 1, seen, text_lines)
    ELSE LET clean == CleanLine(lines[i]) IN
         IF KeepsLine(clean, seen)
         THEN CleanLoop(lines, i + 1, seen \cup {clean}, Append(text_lines, clean))
         ELSE CleanLoop(lines, i + 1, seen, text_lines)

\* text_lines at the end of the loop
clean_text_lines(content) == CleanLoop(split(content, NL), 1, {}, <<>>)

clean_vtt_content(content) == join(<<" ">>, clean_text_lines(content))

(***************************************************************************)
(* Inputs of clean_vtt_content.                                            *)
(***************************************************************************)
RawAlphabet == {"a", "<", ">", " ", "-", NL}

RECURSIVE SeqsUpTo(_, _)
SeqsUpTo(S, n) ==
    IF n = 0 THEN {<<>>}
    ELSE LET shorter == SeqsUpTo(S, n - 1) IN
         shorter \cup {Append(s, x) : s \in {t \in shorter : Len(t) = n - 1}, x \in S}

TimingLine == <<"0", "1", " ", "-", "-", ">", " ", "0", "2">>
CueHi == <<"h", "i">>
CueHiTagged == <<"<", "c", ">", "h", "i", "<", "/", "c", ">">>
CueYo == <<" ", "y", "o">>
CueOnlyTags == <<"<", "c", ">", " ", "<", "/", "c", ">">>

SampleLines == {TimingLine, CueHi, CueHiTagged, CueYo, CueOnlyTags}

\* Whole caption files as the downloader writes them.
VttHello ==
    join(<<NL>>, <<WEBVTT, KindPrefix \o <<" ", "c">>, LanguagePrefix \o <<" ", "e", "n">>,
                   <<>>, NotePrefix \o <<" ", "x">>, <<>>, TimingLine,
                   <<"<", "0", "0", ":", "0", "0", ":", "0", "1", ".", "0", "0", "0", ">",
                     "<", "c", ">", " ", "h", "e", "l", "l", "o", "<", "/", "c", ">",
                     " ", "w", "o", "r", "l", "d">>, <<"\r">>>>)
VttEmpty == join(<<NL>>, <<WEBVTT, <<>>, TimingLine, CueOnlyTags>>)
VttHeaderInCue ==
    join(<<NL>>, <<WEBVTT, <<>>, TimingLine, <<"<", "c", ">">> \o NotePrefix \o <<" ", "a">>>>)
VttArrowInCue ==
    join(<<NL>>, <<WEBVTT, <<>>, TimingLine, <<"a", " ", "-", "<", "b", ">", "-", ">", " ", "c">>>>)

SampleFiles == {VttHello, VttEmpty, VttHeaderInCue, VttArrowInCue}

RawTexts ==
    SeqsUpTo(RawAlphabet, MaxRawLen)
        \cup {join(<<NL>>, ls) : ls \in SeqsUpTo(SampleLines, MaxRawLines)}
        \cup SampleFiles

(***************************************************************************)
(* The external downloader and run_command.                                *)
(*                                                                         *)
(* A diagnostic text (stderr) is the set of the marker phrases it          *)
(* contains; the empty set is the empty string.  A phrase is in the text   *)
(* as written; Lower gives the phrase as it reads in stderr.lower().       *)
(***************************************************************************)
Markers ==
    {"Sign in to confirm", "SIGN IN TO CONFIRM", "captcha", "CAPTCHA",
     "rate limit", "Rate Limit", "429",
     "cookies", "Cookies", "error", "ERROR",
     "found 0 sig function possibilities", "Signature solving failed",
     "SIGNATURE SOLVING FAILED", "n challenge solving failed",
     "Only images are available", "Timeout", "other"}

Lower(m) ==
    CASE m \in {"Sign in to confirm", "SIGN IN TO CONFIRM"} -> "sign in to confirm"
      [] m = "CAPTCHA" -> "captcha"
      [] m = "Rate Limit" -> "rate limit"
      [] m = "Cookies" -> "cookies"
      [] m = "ERROR" -> "error"
      [] m \in {"Signature solving failed", "SIGNATURE SOLVING FAILED"} ->
            "signature solving failed"
      [] m = "Only images are available" -> "only images are available"
      [] m = "Timeout" -> "timeout"
      [] OTHER -> m

\* needle in stderr
In(needle, stderr) == needle \in stderr

\* needle in stderr.lower()
InLower(needle, stderr) == \E m \in stderr : Lower(m) = needle

\* Language codes, and the extension of a caption file.
EN == <<"e", "n">>
RU == <<"r", "u">>
DE == <<"d", "e">>
VttExt == <<".", "v", "t", "t">>

\* f'.{lang}.vtt'
LangVtt(lang) == <<".">> \o lang \o VttExt

\* What one invocation of the downloader did: how it ended, what it printed
\* and which files it wrote next to the output prefix.
\*   kind   "exit" (ran to its end), "timeout" (subprocess.TimeoutExpired) or
\*          "oserror" (any other exception of subprocess.run)
\*   wrote  a set of [suffix, content]
ToolRun(kind, code, stdout, stderr, wrote) ==
    [kind |-> kind, code |-> code, stdout |-> stdout, stderr |-> stderr, wrote |-> wrote]

\* run_command: (stdout, stderr, returncode) of an invocation.
run_command(run) ==
    IF run.kind = "exit" THEN <<run.stdout, run.stderr, run.code>>
    ELSE IF run.kind = "timeout" THEN <<<<>>, {"Timeout"}, 1>>
    ELSE <<<<>>, {"other"}, 1>>

\* The sets of at most n elements of S.
RECURSIVE SubsetsUpTo(_, _)
SubsetsUpTo(S, n) ==
    IF n = 0 THEN {{}}
    ELSE LET smaller == SubsetsUpTo(S, n - 1) IN
         smaller \cup {t \cup {x} : t \in smaller, x \in S}

\* The sets of files an invocation may write: each suffix at most once.
Writes(suffixes, contents) ==
    {w \in SUBSET (suffixes \X contents) :
        \A a \in w : \A b \in w : a[1] = b[1] => a = b}

\* The behaviours of the downloader a specification draws from.
\*   lang_stdouts  what the detection invocation may print
\*   lang_codes    its exit codes (line 173 does not read the code, so only
\*                 the specification that observes it draws both)
\*   lang_stderrs  its diagnostics
\*   stderrs       the diagnostics of a download invocation
\*   untagged      whether a download may also write the untagged {base}.vtt
\*   contents      the caption files it may write
\*   kinds         how an invocation may end
\*   faults        where in a call an unexpected exception may be raised
FaultPositions == {"detect", "download", "report", "classify", "glob", "unlink", "warn"}

BatchTool ==
    [lang_stdouts |-> {<<>>},
     lang_codes |-> {0},
     lang_stderrs |-> {{}},
     stderrs |-> {{}, {"429"}},
     untagged |-> FALSE,
     contents |-> {VttHello},
     kinds |-> {"exit"},
     faults |-> {"detect", "warn"}]

FetchTool ==
    [lang_stdouts |-> {<<>>, EN \o <<NL>>, <<NL, " ">> \o RU \o <<" ", "\r", NL>>, DE \o <<NL>>},
     lang_codes |-> {0, 1},
     lang_stderrs |-> {{}, {"other"}},
     stderrs |-> {{}, {"other"}, {"429"}},
     untagged |-> TRUE,
     contents |-> {VttHello, VttEmpty},
     kinds |-> {"exit", "timeout", "oserror"},
     faults |-> FaultPositions]

ClassifyTool ==
    [lang_stdouts |-> {<<>>, DE \o <<NL>>},
     lang_codes |-> {0},
     lang_stderrs |-> {{}},
     stderrs |-> SubsetsUpTo(Markers, MaxMarkers),
     untagged |-> FALSE,
     contents |-> {VttHello},
     kinds |-> {"exit"},
     faults |-> {"classify"}]

\* The downloader of the fair batch: a third language is detected, so the
\* download loop has its longest list.
LiveTool ==
    [lang_stdouts |-> {DE \o <<NL>>},
     lang_codes |-> {0},
     lang_stderrs |-> {{}},
     stderrs |-> {{}},
     untagged |-> FALSE,
     contents |-> {VttHello},
     kinds |-> {"exit"},
     faults |-> {"detect"}]

DetectRuns(D) ==
    {ToolRun("exit", c, out, e, {}) :
        c \in D.lang_codes, out \in D.lang_stdouts, e \in D.lang_stderrs}
        \cup {ToolRun(kind, 1, <<>>, {}, {}) : kind \in D.kinds \ {"exit"}}

DownloadRuns(D, sub_lang) ==
    LET suffixes == {LangVtt(sub_lang)} \cup (IF D.untagged THEN {VttExt} ELSE {})
        writes == Writes(suffixes, D.contents)
    IN {ToolRun("exit", c, <<>>, e, w) : c \in {0, 1}, e \in D.stderrs, w \in writes}
        \cup {ToolRun("timeout", 1, <<>>, {}, w) : w \in writes, kind \in D.kinds \cap {"timeout"}}
        \cup {ToolRun("oserror", 1, <<>>, {}, {}) : kind \in D.kinds \cap {"oserror"}}

(***************************************************************************)
(* The files in /tmp.  A file is [name, content, by]: `name` is its file   *)
(* name, `by` records the call that wrote it (history, not read by the     *)
(* program).                                                               *)
(***************************************************************************)
VideoIds == {<<"a">>, <<"a", "b">>, <<"b">>}

\* The file name part of temp_file = f'/tmp/yt_transcript_{video_id}'
TempName(video_id) ==
    <<"y", "t", "_", "t", "r", "a", "n", "s", "c", "r", "i", "p", "t", "_">> \o video_id

\* os.path.exists(path)
Exists(files, name) == \E f \in files : f.name = name

FileAt(files, name) == CHOOSE f \in files : f.name = name

\* The downloader, given -o temp_file, writing `wrote`: a file it writes
\* replaces the one of the same name.
WriteFiles(files, temp_file, wrote, by) ==
    {f \in files : \A w \in wrote : f.name # temp_file \o w[1]}
        \cup {[name |-> temp_file \o w[1], content |-> w[2], by |-> by] : w \in wrote}

\* os.remove(path) / Path.unlink() of an existing path
RemoveFile(files, name) == {f \in files : f.name # name}

\* Path('/tmp').glob(f'yt_transcript_{video_id}*'): the names of the files
\* in /tmp that start with the pattern's literal part.
GlobNames(files, video_id) ==
    {f.name : f \in {g \in files : startswith(g.name, TempName(video_id))}}

(***************************************************************************)
(* get_video_transcript (app.py).  Call i is the call the executor makes   *)
(* for videos[i].  Every access to the queue, to a file or to the future   *)
(* is a step of its own, so that the calls of a batch interleave as the    *)
(* worker threads do.                                                      *)
(***************************************************************************)
PoolWidth == 4      \* ThreadPoolExecutor(max_workers=4)

N == Len(videos)

\* The error string of a returned tuple: the fixed text it starts with and
\* the stderr excerpt it carries; "" is the record with the empty text.
Error(msg, stderr) == [msg |-> msg, stderr |-> stderr]
NoError == Error("", {})

\* The tuple a call returns, or the exception it raises.
Returned(video_id, transcript, error, info) ==
    [kind |-> "result", video_id |-> video_id, transcript |-> transcript,
     error |-> error, info |-> info]
Raised == [kind |-> "exception", video_id |-> <<>>, transcript |-> <<>>,
           error |-> NoError, info |-> "{}"]
NoResult == [kind |-> "none", video_id |-> <<>>, transcript |-> <<>>,
             error |-> NoError, info |-> "{}"]

\* The locals of a call that has not started.
\*   runs     the download invocations made so far (history)
\*   detects  the number of detection invocations made so far (history)
\*   read_by  the call that wrote the caption file read last, 0 for none
\*            (history)
\*   blank    a caption file read so far had an empty cleaned text (history)
\*   lang_code  the exit code of the detection invocation, the `_` of line
\*              173 (history)
QueuedCall ==
    [pos |-> "queued", read_by |-> 0, blank |-> FALSE, lang_code |-> 0, lang |-> <<>>, preferred_langs |-> <<>>, k |-> 0, stderr |-> {},
     code |-> 1,
     cand |-> 0, content |-> <<>>, transcript |-> <<>>, todo |-> {}, ret |-> NoResult,
     runs |-> <<>>, detects |-> 0]

DoneCall == [QueuedCall EXCEPT !.pos = "done"]

\* A progress event; `of` is the call that put it (history).
Event(type, i) == [type |-> type, video_id |-> videos[i].id, of |-> i]

\* Variant of Put: the event is put twice.
PutTwice(i, type) ==
    progress_queue' = progress_queue \o <<Event(type, i), Event(type, i)>>

\* progress_queue.put({...})
Put(i, type) == progress_queue' = Append(progress_queue, Event(type, i))

\* The first line of the detection output that is not blank, stripped.
RECURSIVE FirstNonBlank(_, _)
FirstNonBlank(lines, i) ==
    IF i > Len(lines) THEN <<>>
    ELSE IF strip(lines[i]) # <<>> THEN strip(lines[i])
    ELSE FirstNonBlank(lines, i + 1)

\* (lang_stdout or "").splitlines(): "\r" ends a line as "\n" does; the
\* empty pieces this leaves between "\r" and "\n" are blank lines.
RECURSIVE splitlines(_)
splitlines(s) ==
    LET breaks == {i \in 1..Len(s) : s[i] \in {NL, "\r"}} IN
    IF breaks = {} THEN <<s>>
    ELSE <<SubSeq(s, 1, SetMin(breaks) - 1)>>
             \o splitlines(SubSeq(s, SetMin(breaks) + 1, Len(s)))

DetectedLang(lang_stdout) == FirstNonBlank(splitlines(lang_stdout), 1)

\* for l in [lang, "en", "ru"]: if l and l not in preferred_langs: append
RECURSIVE AppendNew(_, _)
AppendNew(preferred_langs, ls) ==
    IF ls = <<>> THEN preferred_langs
    ELSE IF Head(ls) # <<>> /\ \A j \in 1..Len(preferred_langs) : preferred_langs[j] # Head(ls)
         THEN AppendNew(Append(preferred_langs, Head(ls)), Tail(ls))
         ELSE AppendNew(preferred_langs, Tail(ls))

\* Variant of PreferredLangs: `l not in preferred_langs` is left out.
PreferredLangsRepeating(lang) ==
    SelectSeq(<<lang, EN, RU>>, LAMBDA l : l # <<>>)

PreferredLangs(lang) == AppendNew(<<>>, <<lang, EN, RU>>)

\* Variant of FailureRule: the cookies rule is tested before the rate-limit rule.
FailureRuleAuthFirst(stderr) ==
    IF In("Sign in to confirm", stderr) \/ InLower("captcha", stderr) THEN "Blocked"
    ELSE IF InLower("cookies", stderr) /\ InLower("error", stderr) THEN "AuthFailure"
    ELSE IF InLower("rate limit", stderr) \/ In("429", stderr) THEN "RateLimited"
    ELSE IF \/ In("found 0 sig function possibilities", stderr)
            \/ In("Signature solving failed", stderr)
            \/ In("n challenge solving failed", stderr)
            \/ In("Only images are available", stderr) THEN "ToolOutdated"
    ELSE "none"

\* The rule of lines 217-254 that a stderr text matches first, or "none".
FailureRule(stderr) ==
    IF In("Sign in to confirm", stderr) \/ InLower("captcha", stderr) THEN "Blocked"
    ELSE IF InLower("rate limit", stderr) \/ In("429", stderr) THEN "RateLimited"
    ELSE IF InLower("cookies", stderr) /\ InLower("error", stderr) THEN "AuthFailure"
    ELSE IF \/ In("found 0 sig function possibilities", stderr)
            \/ In("Signature solving failed", stderr)
            \/ In("n challenge solving failed", stderr)
            \/ In("Only images are available", stderr) THEN "ToolOutdated"
    ELSE "none"

\* The fixed texts the error strings start with.
BlockedMsg == "YouTube CAPTCHA. stderr: "
RateLimitedMsg == "Rate limit. stderr: "
AuthFailureMsg == "cookies: "
ToolOutdatedMsg == "yt-dlp JS challenge (EJS) failed. stderr: "
NoCaptionsMsg == "subtitles not found"

\* The error string returned with each rule (stderr[:150] keeps the markers).
RuleError(rule, stderr) ==
    CASE rule = "Blocked" -> Error(BlockedMsg, stderr)
      [] rule = "RateLimited" -> Error(RateLimitedMsg, stderr)
      [] rule = "AuthFailure" -> Error(AuthFailureMsg, stderr)
      [] rule = "ToolOutdated" -> Error(ToolOutdatedMsg, stderr)

\* for lang in ['ru', 'en']: for ext in [f'.{lang}.vtt', '.vtt']
LookupOrder == <<LangVtt(RU), VttExt>> \o <<LangVtt(EN), VttExt>>

(***************************************************************************)
(* ThreadPoolExecutor(max_workers=width): the work items are taken oldest  *)
(* first, each by a worker thread that is not running an item; there are   *)
(* at most `width` threads.  The threads are interchangeable, so the one   *)
(* that takes an item is the free one of least number.                     *)
(***************************************************************************)
\* The threads that are running a work item.
BusyWorkers == {future[j].worker : j \in {k \in 1..Len(future) :
                                             future[k].state = "RUNNING"}}

\* A thread of the pool is free to take a work item.
FreeWorkers(width) == (1..width) \ BusyWorkers

FreeWorker(width) == SetMin(FreeWorkers(width))

\* Work item i is the oldest that was not taken, and a thread is free.
CanStart(i, width) ==
    /\ future[i].state = "PENDING"
    /\ \A j \in 1..(i - 1) : future[j].state # "PENDING"
    /\ FreeWorkers(width) # {}

\* The worker thread takes the work item (the pool runs at most PoolWidth
\* items, oldest first) and the call puts its 'status' event.
Begin(i) ==
    /\ pc = "running"
    /\ call[i].pos = "queued"
    /\ CanStart(i, PoolWidth)
    /\ future' = [future EXCEPT ![i].state = "RUNNING",
                                ![i].worker = FreeWorker(PoolWidth)]
    /\ Put(i, "status")
    /\ call' = [call EXCEPT ![i].pos = "detect"]
    /\ UNCHANGED <<videos, pc, fs, log_messages, results, errors, completed, response,
                   clean_vars, cli_vars>>

\* Lines 163-194: the detection invocation, its debug event, preferred_langs.
Detect(i, D) ==
    /\ call[i].pos = "detect"
    /\ \E run \in DetectRuns(D) :
        LET out == run_command(run) IN
        /\ progress_queue' =
              IF out[2] # {} THEN Append(progress_queue, Event("debug", i))
              ELSE progress_queue
        /\ call' = [call EXCEPT ![i].pos = "download",
                                ![i].lang_code = out[3],
                                ![i].lang = DetectedLang(out[1]),
                                ![i].preferred_langs = PreferredLangs(DetectedLang(out[1])),
                                ![i].k = 1,
                                ![i].detects = @ + 1,
                                ![i].stderr = {},
                                ![i].code = 1]
    /\ UNCHANGED <<videos, pc, future, fs, log_messages, results, errors, completed,
                   response,
                   clean_vars, cli_vars>>

\* Variant of LoopEnds: the `break` of line 206 is left out.
LoopEndsNoBreak(c, code) == c.k = Len(c.preferred_langs)

\* Lines 205-206: `if code == 0: break`, or the list is exhausted.
LoopEnds(c, code) == code = 0 \/ c.k = Len(c.preferred_langs)

\* Lines 195-206: one pass of the loop over preferred_langs.  The stderr of
\* a pass that is followed by another is overwritten before it is read, so
\* only the last pass's is kept.
Download(i, D) ==
    /\ call[i].pos = "download"
    /\ LET c == call[i]
           sub_lang == c.preferred_langs[c.k]
       IN \E run \in DownloadRuns(D, sub_lang) :
            LET out == run_command(run)
                last == LoopEnds(c, out[3])
            IN /\ fs' = WriteFiles(fs, TempName(videos[i].id), run.wrote, i)
               /\ call' = [call EXCEPT
                     ![i].stderr = IF last THEN out[2] ELSE {},
                     ![i].code = out[3],
                     ![i].runs = Append(@, [sub_lang |-> sub_lang, code |-> out[3],
                                            kind |-> run.kind]),
                     ![i].k = IF last THEN @ ELSE @ + 1,
                     ![i].pos = IF last THEN "report" ELSE "download"]
    /\ UNCHANGED <<videos, pc, future, progress_queue, log_messages, results, errors,
                   completed, response,
                   clean_vars, cli_vars>>

\* Lines 209-215: the debug event for a non-empty stderr.
Report(i) ==
    /\ call[i].pos = "report"
    /\ progress_queue' =
          IF call[i].stderr # {} THEN Append(progress_queue, Event("debug", i))
          ELSE progress_queue
    /\ call' = [call EXCEPT ![i].pos = "classify"]
    /\ UNCHANGED <<videos, pc, future, fs, log_messages, results, errors, completed,
                   response,
                   clean_vars, cli_vars>>

\* Lines 217-254: the first rule that matches puts its 'error' event and
\* returns; with none the call goes on to look for a caption file.
Classify(i) ==
    /\ call[i].pos = "classify"
    /\ LET rule == FailureRule(call[i].stderr) IN
       IF rule # "none"
       THEN /\ Put(i, "error")
            /\ call' = [call EXCEPT
                  ![i].pos = "return",
                  ![i].ret = Returned(videos[i].id, <<>>,
                                      RuleError(rule, call[i].stderr), "{}")]
       ELSE /\ call' = [call EXCEPT ![i].pos = "probe", ![i].cand = 1]
            /\ UNCHANGED progress_queue
    /\ UNCHANGED <<videos, pc, future, fs, log_messages, results, errors, completed,
                   response,
                   clean_vars, cli_vars>>

\* vtt_path = temp_file + ext, for the candidate the lookup is at
VttPath(i) == TempName(videos[i].id) \o LookupOrder[call[i].cand]

\* Variant of NextCandidate: the lookup stays at the candidate it is at.
NextCandidateAgain(c) == [c EXCEPT !.pos = "probe"]

\* The lookup moving on: to the next candidate, or past the loops.  The
\* local `content` keeps what was last read.
NextCandidate(c) ==
    IF c.cand < Len(LookupOrder)
    THEN [c EXCEPT !.pos = "probe", !.cand = @ + 1]
    ELSE [c EXCEPT !.pos = "glob"]

\* Line 260: os.path.exists(vtt_path)
Probe(i) ==
    /\ call[i].pos = "probe"
    /\ call' = [call EXCEPT ![i] =
          IF Exists(fs, VttPath(i)) THEN [@ EXCEPT !.pos = "open"] ELSE NextCandidate(@)]
    /\ UNCHANGED <<videos, pc, future, fs, progress_queue, log_messages, results, errors,
                   completed, response,
                   clean_vars, cli_vars>>

\* Lines 262-263: open and read; a file that is gone raises, and the
\* `except Exception: pass` goes on with the next candidate.
Open(i) ==
    /\ call[i].pos = "open"
    /\ call' = [call EXCEPT ![i] =
          IF Exists(fs, VttPath(i))
          THEN [@ EXCEPT !.pos = "remove", !.content = FileAt(fs, VttPath(i)).content,
                         !.read_by = FileAt(fs, VttPath(i)).by]
          ELSE NextCandidate(@)]
    /\ UNCHANGED <<videos, pc, future, fs, progress_queue, log_messages, results, errors,
                   completed, response,
                   clean_vars, cli_vars>>

\* clean_vtt_content tabulated over the caption files the downloader writes.
CleanedFile == [content \in {VttHello, VttEmpty} |-> clean_vtt_content(content)]

\* Lines 265-266: clean_vtt_content of what was read and `if transcript`:
\* a non-empty text is the result, an empty one moves on to the next name.
\* Variant of Cleaned: `if transcript` is left out.
CleanedUntested(c) ==
    [c EXCEPT !.pos = "success", !.transcript = CleanedFile[c.content]]

Cleaned(c) ==
    LET transcript == IF c.content \in DOMAIN CleanedFile
                      THEN CleanedFile[c.content]
                      ELSE clean_vtt_content(c.content) IN
    IF transcript # <<>>
    THEN [c EXCEPT !.pos = "success", !.transcript = transcript]
    ELSE NextCandidate([c EXCEPT !.blank = TRUE])

\* Lines 264-266: os.remove, clean_vtt_content, `if transcript`; os.remove
\* of a file that is gone raises into the same `except`.
Remove(i) ==
    /\ call[i].pos = "remove"
    /\ IF Exists(fs, VttPath(i))
       THEN /\ fs' = RemoveFile(fs, VttPath(i))
            /\ call' = [call EXCEPT ![i] = Cleaned(@)]
       ELSE /\ call' = [call EXCEPT ![i] = NextCandidate(@)]
            /\ UNCHANGED fs
    /\ UNCHANGED <<videos, pc, future, progress_queue, log_messages, results, errors,
                   completed, response,
                   clean_vars, cli_vars>>

\* Lines 267-272: the 'success' event and the return of the transcript.
Success(i) ==
    /\ call[i].pos = "success"
    /\ Put(i, "success")
    /\ call' = [call EXCEPT
          ![i].pos = "return",
          ![i].ret = Returned(videos[i].id, call[i].transcript, NoError, "elapsed")]
    /\ UNCHANGED <<videos, pc, future, fs, log_messages, results, errors, completed,
                   response,
                   clean_vars, cli_vars>>

\* Line 277: the glob lists the directory once.
GlobStep(i) ==
    /\ call[i].pos = "glob"
    /\ LET names == GlobNames(fs, videos[i].id) IN
       call' = [call EXCEPT ![i].todo = names,
                            ![i].pos = IF names = {} THEN "warn" ELSE "unlink"]
    /\ UNCHANGED <<videos, pc, future, fs, progress_queue, log_messages, results, errors,
                   completed, response,
                   clean_vars, cli_vars>>

\* Lines 278-281: one f.unlink(); a file that is gone raises and is passed.
Unlink(i) ==
    /\ call[i].pos = "unlink"
    /\ \E name \in call[i].todo :
        /\ fs' = RemoveFile(fs, name)
        /\ call' = [call EXCEPT ![i].todo = @ \ {name},
                                ![i].pos = IF call[i].todo = {name} THEN "warn" ELSE "unlink"]
    /\ UNCHANGED <<videos, pc, future, progress_queue, log_messages, results, errors,
                   completed, response,
                   clean_vars, cli_vars>>

\* Lines 283-293: the 'warning' event and the return of the diagnostic.
Warn(i) ==
    /\ call[i].pos = "warn"
    /\ Put(i, "warning")
    /\ call' = [call EXCEPT
          ![i].pos = "return",
          ![i].ret = Returned(videos[i].id, <<>>,
                              Error(NoCaptionsMsg, call[i].stderr), "{}")]
    /\ UNCHANGED <<videos, pc, future, fs, log_messages, results, errors, completed,
                   response,
                   clean_vars, cli_vars>>

\* The call returns: the worker sets the future's result.
Return(i) ==
    /\ call[i].pos = "return"
    /\ future' = [future EXCEPT ![i].state = "FINISHED", ![i].outcome = call[i].ret]
    /\ call' = [call EXCEPT ![i] = DoneCall]
    /\ UNCHANGED <<videos, pc, fs, progress_queue, log_messages, results, errors,
                   completed, response,
                   clean_vars, cli_vars>>

\* An unexpected exception leaves the call (anywhere but inside the try of
\* the lookup, which swallows it): the worker sets the future's exception.
Fault(i, D) ==
    /\ call[i].pos \in D.faults
    /\ future' = [future EXCEPT ![i].state = "FINISHED", ![i].outcome = Raised]
    /\ call' = [call EXCEPT ![i] = DoneCall]
    /\ UNCHANGED <<videos, pc, fs, progress_queue, log_messages, results, errors,
                   completed, response,
                   clean_vars, cli_vars>>

(***************************************************************************)
(* api_get_transcripts (app.py).                                           *)
(***************************************************************************)
Descriptor(id) == [id |-> id, title |-> id, url |-> id, views |-> 0]

\* A line of log_messages that is not the message of an event.
LogLine(type) == [type |-> type, video_id |-> <<>>, of |-> 0]

\* Lines 376-377: an empty list is refused.
Reject ==
    /\ pc = "request"
    /\ videos = <<>>
    /\ response' = [status |-> 400, count |-> 0, total |-> 0, errors |-> <<>>,
                    toc |-> <<>>]
    /\ pc' = "done"
    /\ UNCHANGED <<videos, future, call, fs, progress_queue, log_messages, results,
                   errors, completed,
                   clean_vars, cli_vars>>

\* A future right after executor.submit; `worker` is the thread that takes
\* its work item (0: none yet).
PendingFuture == [state |-> "PENDING", outcome |-> NoResult, yielded |-> FALSE, worker |-> 0]

\* Lines 379-398: the accumulators, the log header, the queue, and every
\* video submitted to the executor.
Submit ==
    /\ pc = "request"
    /\ videos # <<>>
    /\ results' = <<>>
    /\ errors' = <<>>
    /\ completed' = 0
    /\ progress_queue' = <<>>
    /\ log_messages' = <<LogLine("start"), LogLine("videos"), LogLine("threads"),
                         LogLine("rule")>>
    /\ future' = [i \in 1..N |-> PendingFuture]
    /\ call' = [i \in 1..N |-> QueuedCall]
    /\ pc' = "running"
    /\ UNCHANGED <<videos, fs, response,
                   clean_vars, cli_vars>>

\* The entries of results and errors for call i.
ResultEntry(i, out) ==
    [of |-> i, title |-> videos[i].title, url |-> videos[i].url,
     views |-> videos[i].views, transcript |-> out.transcript]

ErrorEntry(i, error) == [of |-> i, title |-> videos[i].title, error |-> error]

\* Variant of Collected: only a transcript is recorded.
CollectedSuccessOnly(i, out) ==
    IF out.kind = "result" /\ out.transcript # <<>>
    THEN [results |-> Append(results, ResultEntry(i, out)), errors |-> errors]
    ELSE [results |-> results, errors |-> errors]

\* Variant of Collected: the `except` branch records nothing.
CollectedNoExcept(i, out) ==
    IF out.kind = "result"
    THEN IF out.transcript # <<>>
         THEN [results |-> Append(results, ResultEntry(i, out)), errors |-> errors]
         ELSE [results |-> results, errors |-> Append(errors, ErrorEntry(i, out.error))]
    ELSE [results |-> results, errors |-> errors]

\* Lines 410-423: the two lists after the loop body ran for call i, whose
\* future holds `out`.
Collected(i, out) ==
    IF out.kind = "result"
    THEN IF out.transcript # <<>>
         THEN [results |-> Append(results, ResultEntry(i, out)), errors |-> errors]
         ELSE [results |-> results, errors |-> Append(errors, ErrorEntry(i, out.error))]
    ELSE [results |-> results,
          errors |-> Append(errors, ErrorEntry(i, Error("exception", {})))]

\* Lines 400-423: as_completed yields a finished future and the loop body
\* runs; the drain loop (inside the try, after future.result()) empties the
\* queue into the log.
Collect(i) ==
    /\ pc = "running"
    /\ future[i].state = "FINISHED"
    /\ ~future[i].yielded
    /\ future' = [future EXCEPT ![i].yielded = TRUE]
    /\ completed' = completed + 1
    /\ LET out == future[i].outcome IN
       /\ results' = Collected(i, out).results
       /\ errors' = Collected(i, out).errors
       /\ IF out.kind = "result"
          THEN /\ log_messages' = log_messages \o progress_queue
               /\ progress_queue' = <<>>
          ELSE UNCHANGED <<log_messages, progress_queue>>
    /\ UNCHANGED <<videos, pc, call, fs, response,
                   clean_vars, cli_vars>>

\* Variant of BatchResponse: a batch is a failure as soon as one video failed.
BatchResponseStrict ==
    IF results = <<>> \/ errors # <<>>
    THEN [status |-> 400, count |-> 0, total |-> N, errors |-> errors, toc |-> <<>>]
    ELSE [status |-> 200, count |-> Len(results), total |-> N, errors |-> errors,
          toc |-> [j \in 1..Len(results) |-> results[j].title]]

\* Lines 430-435 and 474-483: the JSON answer; 'details' of the failure is
\* the errors list, toc the titles of lines 454-456.
BatchResponse ==
    IF results = <<>>
    THEN [status |-> 400, count |-> 0, total |-> N, errors |-> errors, toc |-> <<>>]
    ELSE [status |-> 200, count |-> Len(results), total |-> N, errors |-> errors,
          toc |-> [j \in 1..Len(results) |-> results[j].title]]

\* Lines 425-483: every future was yielded and the pool is shut down; the
\* log footer and the response.
Finish ==
    /\ pc = "running"
    /\ \A i \in 1..N : future[i].yielded
    /\ log_messages' = log_messages \o <<LogLine("rule"), LogLine("finished"),
                                         LogLine("succeeded")>>
    /\ response' = BatchResponse
    /\ pc' = "done"
    /\ UNCHANGED <<videos, future, call, fs, progress_queue, results, errors, completed,
                   clean_vars, cli_vars>>

(***************************************************************************)
(* Specifications of the batch.                                            *)
(***************************************************************************)
CleanIdle ==
    /\ vtt_content = <<>>
    /\ cleaned = <<>>
    /\ recleaned = <<>>
    /\ clean_pc = "idle"

BatchIdle ==
    /\ videos = <<>>
    /\ pc = "idle"
    /\ future = <<>>
    /\ call = <<>>
    /\ fs = {}
    /\ progress_queue = <<>>
    /\ log_messages = <<>>
    /\ results = <<>>
    /\ errors = <<>>
    /\ completed = 0
    /\ response = [status |-> 0, count |-> 0, total |-> 0, errors |-> <<>>, toc |-> <<>>]

CliIdle ==
    /\ cli_args = <<>>
    /\ cli_out = <<>>
    /\ cli_pc = "idle"

\* A request with the list `vs`, before the handler runs.
Request(vs) ==
    /\ videos = vs
    /\ pc = "request"
    /\ future = <<>>
    /\ call = <<>>
    /\ fs = {}
    /\ progress_queue = <<>>
    /\ log_messages = <<>>
    /\ results = <<>>
    /\ errors = <<>>
    /\ completed = 0
    /\ response = [status |-> 0, count |-> 0, total |-> 0, errors |-> <<>>, toc |-> <<>>]

VideoLists == {[j \in 1..Len(ids) |-> Descriptor(ids[j])] : ids \in SeqsUpTo(VideoIds, MaxVideos)}

Init == CleanIdle /\ CliIdle /\ \E vs \in VideoLists : Request(vs)

\* The requests of the fair batch: two ids, one a prefix of the other, so
\* that the glob of one call matches the files of the other.
LiveLists ==
    {vs \in VideoLists : \A j \in 1..Len(vs) : vs[j].id \in {<<"a">>, <<"a", "b">>}}

InitLive == CleanIdle /\ CliIdle /\ \E vs \in LiveLists : Request(vs)

\* A step of call i once it has started.
CallStep(i, D) ==
    \/ Detect(i, D) \/ Download(i, D) \/ Report(i) \/ Classify(i)
    \/ Probe(i) \/ Open(i) \/ Remove(i) \/ Success(i)
    \/ GlobStep(i) \/ Unlink(i) \/ Warn(i) \/ Return(i)

\* The steps of a batch whose list is not empty, with the downloader
\* behaving as in D.
Steps(D) ==
    \/ Submit
    \/ \E i \in 1..Len(future) : Collect(i)
    \/ Finish
    \/ \E i \in 1..Len(call) : Begin(i)
    \/ \E i \in 1..Len(call) : Detect(i, D)
    \/ \E i \in 1..Len(call) : Download(i, D)
    \/ \E i \in 1..Len(call) : Report(i)
    \/ \E i \in 1..Len(call) : Classify(i)
    \/ \E i \in 1..Len(call) : Probe(i)
    \/ \E i \in 1..Len(call) : Open(i)
    \/ \E i \in 1..Len(call) : Remove(i)
    \/ \E i \in 1..Len(call) : Success(i)
    \/ \E i \in 1..Len(call) : GlobStep(i)
    \/ \E i \in 1..Len(call) : Unlink(i)
    \/ \E i \in 1..Len(call) : Warn(i)
    \/ \E i \in 1..Len(call) : Return(i)
    \/ \E i \in 1..Len(call) : Fault(i, D)

\* A batch of up to MaxVideos videos.
Next == Reject \/ Steps(BatchTool)

\* A batch whose videos may have a language other than en and ru (LiveTool).
NextLive == Reject \/ Steps(LiveTool)

\* One video, with the downloader writing any files (FetchTool).
InitFetch == CleanIdle /\ CliIdle /\ Request(<<Descriptor(<<"a">>)>>)

NextFetch == Steps(FetchTool)

\* One video, with the downloader printing any diagnostics (ClassifyTool).
NextClassify == Steps(ClassifyTool)

(***************************************************************************)
(* clean_vtt_content applied to an input, then to its own output.          *)
(***************************************************************************)
InitClean ==
    /\ BatchIdle
    /\ CliIdle
    /\ vtt_content \in RawTexts
    /\ cleaned = <<>>
    /\ recleaned = <<>>
    /\ clean_pc = "input"

Clean ==
    /\ clean_pc = "input"
    /\ cleaned' = clean_vtt_content(vtt_content)
    /\ clean_pc' = "cleaned"
    /\ UNCHANGED <<vtt_content, recleaned, batch_vars, cli_vars>>

Reclean ==
    /\ clean_pc = "cleaned"
    /\ recleaned' = clean_vtt_content(cleaned)
    /\ clean_pc' = "recleaned"
    /\ UNCHANGED <<vtt_content, cleaned, batch_vars, cli_vars>>

NextClean == Clean \/ Reclean

(***************************************************************************)
(* filter_videos (yt_transcripts.py).                                      *)
(***************************************************************************)
None == -1      \* the default None of an optional argument

\* `if x:` for an optional int: None and 0 are both false.
Truthy(x) == x # None /\ x # 0

\* list.sort(key=..., reverse=True): stable, the later of two equal keys
\* stays behind the earlier.
InsertDesc(sorted, v, key) ==
    LET n == Cardinality({j \in 1..Len(sorted) : sorted[j][key] >= v[key]})
    IN SubSeq(sorted, 1, n) \o <<v>> \o SubSeq(sorted, n + 1, Len(sorted))

RECURSIVE SortDesc(_, _)
SortDesc(list, key) ==
    IF list = <<>> THEN <<>>
    ELSE InsertDesc(SortDesc(SubSeq(list, 1, Len(list) - 1), key), list[Len(list)], key)

\* Lines 126-145.
filter_videos(a) ==
    LET f0 == a.videos
        f1 == IF Truthy(a.max_duration_min)
              THEN SelectSeq(f0, LAMBDA v : v.duration <= a.max_duration_min * 60)
              ELSE f0
        f2 == IF Truthy(a.min_duration_min)
              THEN SelectSeq(f1, LAMBDA v : v.duration >= a.min_duration_min * 60)
              ELSE f1
        f3 == IF Truthy(a.min_views)
              THEN SelectSeq(f2, LAMBDA v : v.views >= a.min_views)
              ELSE f2
    IN IF a.sort_by \in {"views", "duration"} THEN SortDesc(f3, a.sort_by) ELSE f3

\* Listings: videos numbered by their place, with any of a few durations
\* (seconds) and view counts; and the listing of durations 30, 300, 600, 1200.
Durations == {30, 900, 1200}
ViewCounts == {0, 5}

Listings ==
    UNION {{[j \in 1..n |-> [id |-> j, duration |-> d[j], views |-> w[j]]] :
               d \in [1..n -> Durations], w \in [1..n -> ViewCounts]} : n \in 0..MaxListed}

ExampleListing ==
    <<[id |-> 1, duration |-> 30, views |-> 5], [id |-> 2, duration |-> 300, views |-> 0],
      [id |-> 3, duration |-> 600, views |-> 5], [id |-> 4, duration |-> 1200, views |-> 0]>>

FilterArgs ==
    [videos : Listings \cup {ExampleListing},
     max_duration_min : {None, 0, 15, 20},
     min_duration_min : {None, 0, 15},
     min_views : {None, 0, 5},
     sort_by : {"views", "duration"}]

InitFilter ==
    /\ CleanIdle
    /\ BatchIdle
    /\ cli_args \in FilterArgs
    /\ cli_out = <<>>
    /\ cli_pc = "input"

Filter ==
    /\ cli_pc = "input"
    /\ cli_out' = filter_videos(cli_args)
    /\ cli_pc' = "returned"
    /\ UNCHANGED <<cli_args, clean_vars, batch_vars>>

NextFilter == Filter

(***************************************************************************)
(* main, download_transcripts and get_video_transcript of                  *)
(* yt_transcripts.py: a batch of the command-line script.  The call for    *)
(* one video is one step.                                                  *)
(***************************************************************************)
ClampWorkersNoFloor(workers) == IF workers < 10 THEN workers ELSE 10

\* Line 359: max(1, min(10, args.workers))
ClampWorkers(workers) ==
    LET m == IF workers < 10 THEN workers ELSE 10 IN IF m > 1 THEN m ELSE 1

DefaultWorkers == 4     \* --workers default=4

\* The --workers values a run is started with.
RequestedWorkers == {0, DefaultWorkers, 11}

\* max_workers of the pool of this run.
CliWidth == ClampWorkers(cli_args.workers)

InfoExt == <<".", "i", "n", "f", "o", ".", "j", "s", "o", "n">>

\* What the one invocation of a call did: whether it wrote {base}.info.json
\* and with which "language", and the caption files it wrote.
CliRuns ==
    {[info |-> info, wrote |-> w] :
        info \in {<<>>, <<<<" ">> \o RU>>},
        w \in Writes({LangVtt(EN), LangVtt(RU), VttExt}, {VttHello})
              \cup Writes({LangVtt(EN)}, {VttEmpty})}

\* Lines 202-240 for one video: the files afterwards and the returned tuple.
CliFetched(files, video_id, run, by) ==
    LET temp_file == TempName(video_id)
        f1 == WriteFiles(files, temp_file,
                         run.wrote \cup {<<InfoExt, run.info[j]>> : j \in 1..Len(run.info)}, by)
        info_json_path == temp_file \o InfoExt
        lang == IF Exists(f1, info_json_path)
                THEN strip(FileAt(f1, info_json_path).content)
                ELSE <<>>
        f2 == RemoveFile(f1, info_json_path)
        preferred_files == (IF lang # <<>> THEN <<LangVtt(lang)>> ELSE <<>>)
                               \o <<LangVtt(EN), LangVtt(RU), VttExt>>
        found == {j \in 1..Len(preferred_files) : Exists(f2, temp_file \o preferred_files[j])}
    IN IF found # {}
       THEN LET vtt_path == temp_file \o preferred_files[SetMin(found)] IN
            [fs |-> RemoveFile(f2, vtt_path),
             ret |-> Returned(video_id, CleanedFile[FileAt(f2, vtt_path).content],
                              NoError, "{}")]
       ELSE [fs |-> {f \in f2 : f.name \notin GlobNames(f2, video_id)},
             ret |-> Returned(video_id, <<>>, NoError, "{}")]

\* Lines 245-254: the dict, and every video submitted to the pool.
CliSubmit ==
    /\ cli_pc = "main"
    /\ pc = "request"
    /\ cli_out' = <<>>
    /\ future' = [i \in 1..N |-> PendingFuture]
    /\ call' = [i \in 1..N |-> QueuedCall]
    /\ pc' = "running"
    /\ cli_pc' = "download"
    /\ UNCHANGED <<cli_args, videos, fs, progress_queue, log_messages, results, errors,
                   completed, response, clean_vars>>

\* A worker thread takes the work item.
CliBegin(i) ==
    /\ cli_pc = "download"
    /\ CanStart(i, CliWidth)
    /\ future' = [future EXCEPT ![i].state = "RUNNING", ![i].worker = FreeWorker(CliWidth)]
    /\ call' = [call EXCEPT ![i].pos = "running"]
    /\ UNCHANGED <<cli_args, cli_out, cli_pc, videos, pc, fs, progress_queue, log_messages,
                   results, errors, completed, response, clean_vars>>

\* get_video_transcript runs and returns.
CliFetch(i) ==
    /\ cli_pc = "download"
    /\ future[i].state = "RUNNING"
    /\ \E run \in CliRuns :
        LET after == CliFetched(fs, videos[i].id, run, i) IN
        /\ fs' = after.fs
        /\ future' = [future EXCEPT ![i].state = "FINISHED", ![i].outcome = after.ret]
    /\ call' = [call EXCEPT ![i] = DoneCall]
    /\ UNCHANGED <<cli_args, cli_out, cli_pc, videos, pc, progress_queue, log_messages,
                   results, errors, completed, response, clean_vars>>

\* get_video_transcript raises.
CliFault(i) ==
    /\ cli_pc = "download"
    /\ future[i].state = "RUNNING"
    /\ future' = [future EXCEPT ![i].state = "FINISHED", ![i].outcome = Raised]
    /\ call' = [call EXCEPT ![i] = DoneCall]
    /\ UNCHANGED <<cli_args, cli_out, cli_pc, videos, pc, fs, progress_queue, log_messages,
                   results, errors, completed, response, clean_vars>>

\* The line download_transcripts prints for a yielded future.
Printed(type, i) == [type |-> type, video_id |-> videos[i].id, of |-> i]

\* Lines 256-266: the body of the as_completed loop.
CliCollect(i) ==
    /\ cli_pc = "download"
    /\ future[i].state = "FINISHED"
    /\ ~future[i].yielded
    /\ future' = [future EXCEPT ![i].yielded = TRUE]
    /\ completed' = completed + 1
    /\ LET out == future[i].outcome IN
       IF out.kind = "result" /\ out.transcript # <<>>
       THEN /\ cli_out' = (out.video_id :> out.transcript) @@ cli_out
            /\ log_messages' = Append(log_messages, Printed("ok", i))
       ELSE /\ UNCHANGED cli_out
            /\ log_messages' = Append(log_messages,
                  Printed(IF out.kind = "result" THEN "no subtitles" ELSE "error", i))
    /\ UNCHANGED <<cli_args, cli_pc, videos, pc, call, fs, progress_queue, results, errors,
                   response, clean_vars>>

\* Lines 268 and 361-397: the dict is returned; main exits with 1 when it is
\* empty, and otherwise writes the sections of the videos that have a
\* transcript, in the order of the list.
CliFinish ==
    /\ cli_pc = "download"
    /\ \A i \in 1..N : future[i].yielded
    /\ response' =
          IF cli_out = <<>>
          THEN [status |-> 1, count |-> 0, total |-> N, errors |-> <<>>, toc |-> <<>>]
          ELSE [status |-> 0, count |-> Cardinality(DOMAIN cli_out), total |-> N,
                errors |-> <<>>,
                toc |-> SelectSeq([j \in 1..N |-> videos[j].id],
                                  LAMBDA id : id \in DOMAIN cli_out)]
    /\ pc' = "done"
    /\ cli_pc' = "exit"
    /\ UNCHANGED <<cli_args, cli_out, videos, future, call, fs, progress_queue,
                   log_messages, results, errors, completed, clean_vars>>

InitCli ==
    /\ CleanIdle
    /\ \E vs \in VideoLists \ {<<>>} : Request(vs)
    /\ cli_args \in [workers : RequestedWorkers]
    /\ cli_out = <<>>
    /\ cli_pc = "main"

NextCli ==
    \/ CliSubmit
    \/ \E i \in 1..Len(future) : CliBegin(i)
    \/ \E i \in 1..Len(future) : CliFetch(i)
    \/ \E i \in 1..Len(future) : CliFault(i)
    \/ \E i \in 1..Len(future) : CliCollect(i)
    \/ CliFinish

(***************************************************************************)
(* get_channel_videos of yt_transcripts.py and of app.py, and the callers  *)
(* that test its result.  An entry of the channel has an id, a title, a    *)
(* duration and a view count, the last two possibly missing (None); the    *)
(* downloader prints an entry as id|title|duration|view_count, with NA for *)
(* a missing value.                                                        *)
(***************************************************************************)
Sep == "|"
NA == <<"N", "A">>
DigitChars == <<"0", "1", "2", "3", "4", "5", "6", "7", "8", "9">>

\* str(n) for a natural number
RECURSIVE ToDigits(_)
ToDigits(n) ==
    IF n < 10 THEN <<DigitChars[n + 1]>>
    ELSE ToDigits(n \div 10) \o <<DigitChars[(n % 10) + 1]>>

\* int(s) succeeds; the texts enumerated have no sign, blank or underscore.
IsInt(s) == s # <<>> /\ \A i \in 1..Len(s) : s[i] \in Digits

\* int(s) for a text of digits
RECURSIVE IntOf(_)
IntOf(s) ==
    IF s = <<>> THEN 0
    ELSE 10 * IntOf(SubSeq(s, 1, Len(s) - 1))
            + (CHOOSE k \in 0..9 : DigitChars[k + 1] = s[Len(s)])

\* float(s) succeeds: digits with at most one point and a digit somewhere;
\* the texts enumerated have no sign, exponent, blank, 'nan' or 'inf'.
IsFloat(s) ==
    LET pieces == split(s, ".") IN
    /\ Len(pieces) <= 2
    /\ \A i \in 1..Len(s) : s[i] \in Digits \cup {"."}
    /\ \E i \in 1..Len(s) : s[i] \in Digits

\* float(s) in whole seconds; the fraction is zero in the texts enumerated.
FloatOf(s) == IntOf(split(s, ".")[1])

\* The dict built for one line (lines 106-112 of yt_transcripts.py, lines
\* 102-108 of app.py).
ListedVideo(parts) ==
    [id |-> parts[1], title |-> parts[2],
     duration |-> IF parts[3] # NA THEN FloatOf(parts[3]) ELSE 0,
     views |-> IF parts[4] # NA THEN IntOf(parts[4]) ELSE 0,
     url |-> parts[1]]

\* The body of the loop over the lines: the dicts one line adds, none or
\* one.  float() or int() raising ValueError is the `continue` of the
\* except clause.
ParsedLine(line) ==
    IF line = <<>> \/ ~contains(line, <<Sep>>) THEN <<>>
    ELSE LET parts == split(line, Sep) IN
         IF /\ Len(parts) >= 4
            /\ parts[3] = NA \/ IsFloat(parts[3])
            /\ parts[4] = NA \/ IsInt(parts[4])
         THEN <<ListedVideo(parts)>>
         ELSE <<>>

\* for line in stdout.strip().split('\n'): ...
RECURSIVE ParsedLines(_, _)
ParsedLines(lines, i) ==
    IF i > Len(lines) THEN <<>>
    ELSE ParsedLine(lines[i]) \o ParsedLines(lines, i + 1)

\* videos = [] ... return videos
ParsedListing(stdout) == ParsedLines(split(strip(stdout), NL), 1)

\* Variant of PlaylistEnd: the end index is the limit itself.
PlaylistEndIsLimit(limit) == limit

\* Line 90 of yt_transcripts.py: '--playlist-end', str(limit * 2)
PlaylistEnd(limit) == limit * 2

\* Line 88 of app.py: '--playlist-end', str(limit)
AppPlaylistEnd(limit) == limit

\* What the listing invocation prints for --playlist-end `playlist_end`:
\* the lines of the channel up to that index, each ended by a newline.
ListingStdout(lines, playlist_end) ==
    LET n == IF Len(lines) < playlist_end THEN Len(lines) ELSE playlist_end IN
    IF n = 0 THEN <<>> ELSE join(<<NL>>, SubSeq(lines, 1, n)) \o <<NL>>

\* get_channel_videos of yt_transcripts.py (lines 73-117): the end index
\* passed and the list returned.
get_channel_videos(a) ==
    LET playlist_end == PlaylistEnd(a.limit) IN
    [playlist_end |-> playlist_end,
     videos |-> IF a.code # 0 THEN <<>>
                ELSE ParsedListing(ListingStdout(a.lines, playlist_end))]

\* get_channel_videos of app.py (lines 76-115), which sorts by views when
\* asked to.
app_get_channel_videos(a) ==
    LET playlist_end == AppPlaylistEnd(a.limit)
        parsed == IF a.code # 0 THEN <<>>
                  ELSE ParsedListing(ListingStdout(a.lines, playlist_end))
    IN [playlist_end |-> playlist_end,
        videos |-> IF a.sort_by = "views" THEN SortDesc(parsed, "views") ELSE parsed]

\* The entries a channel may have; a title may contain the separator.
ChannelEntry(title, duration, views) ==
    [id |-> <<"a">>, title |-> title, duration |-> duration, views |-> views]

ChannelEntries ==
    {ChannelEntry(<<"t">>, 7, 12), ChannelEntry(<<"t">>, None, None),
     ChannelEntry(<<"t", Sep, "u">>, 7, 12), ChannelEntry(<<"t", Sep, "7">>, None, 12)}

\* str of a duration: yt-dlp prints a float.
DurationText(d) == IF d = None THEN NA ELSE ToDigits(d) \o <<".", "0">>

ViewsText(n) == IF n = None THEN NA ELSE ToDigits(n)

EntryLine(e) == join(<<Sep>>, <<e.id, e.title, DurationText(e.duration), ViewsText(e.views)>>)

\* Lines that are no record: a blank line, a line without separator, a
\* record cut short, a duration and a view count that are not numbers.
MalformedLines ==
    {<<>>, <<"w">>, <<"a", Sep, "t", Sep, "7">>,
     <<"a", Sep, "t", Sep, "x", Sep, "1">>, <<"a", Sep, "t", Sep, "7", Sep, "1", ".", "0">>}

\* What the channel holds, in the order of the listing: entries and
\* malformed records, each with the line printed for it.
ChannelRecords ==
    {[entry |-> <<e>>, line |-> EntryLine(e)] : e \in ChannelEntries}
        \cup {[entry |-> <<>>, line |-> l] : l \in MalformedLines}

ListingArgs ==
    [script : {"yt_transcripts", "app"},
     records : SeqsUpTo(ChannelRecords, MaxListed),
     limit : {1, 2},
     code : {0, 1},
     sort_by : {"views", "date"}]

InitList ==
    /\ CleanIdle
    /\ BatchIdle
    /\ cli_args \in ListingArgs
    /\ cli_out = <<>>
    /\ cli_pc = "input"

\* The lines of the records, as get_channel_videos is given them.
Listed(a) ==
    [limit |-> a.limit, code |-> a.code, sort_by |-> a.sort_by,
     lines |-> [j \in 1..Len(a.records) |-> a.records[j].line]]

\* main of yt_transcripts.py calls get_channel_videos (line 311).
ListChannel ==
    /\ cli_pc = "input"
    /\ cli_args.script = "yt_transcripts"
    /\ cli_out' = get_channel_videos(Listed(cli_args))
    /\ cli_pc' = "returned"
    /\ UNCHANGED <<cli_args, clean_vars, batch_vars>>

\* api_get_videos of app.py calls get_channel_videos (line 357).
AppListChannel ==
    /\ cli_pc = "input"
    /\ cli_args.script = "app"
    /\ cli_out' = app_get_channel_videos(Listed(cli_args))
    /\ cli_pc' = "returned"
    /\ UNCHANGED <<cli_args, clean_vars, batch_vars>>

\* `if not videos`: sys.exit(1) in main (lines 313-315), the 400 answer in
\* api_get_videos (lines 359-360); otherwise the list goes on to the batch.
ListCaller ==
    /\ cli_pc = "returned"
    /\ cli_pc' = IF cli_out.videos = <<>> THEN "failed" ELSE "listed"
    /\ UNCHANGED <<cli_args, cli_out, clean_vars, batch_vars>>

NextList == ListChannel \/ AppListChannel \/ ListCaller

vars == <<clean_vars, batch_vars, cli_vars>>

SpecClean == InitClean /\ [][NextClean]_vars

Spec == Init /\ [][Next]_vars

SpecFetch == InitFetch /\ [][NextFetch]_vars

SpecClassify == InitFetch /\ [][NextClassify]_vars

SpecFilter == InitFilter /\ [][NextFilter]_vars

SpecCli == InitCli /\ [][NextCli]_vars

SpecList == InitList /\ [][NextList]_vars

\* Every invocation returns and every thread is scheduled: a step that can
\* be taken is taken.
SpecLive == InitLive /\ [][NextLive]_vars /\ WF_vars(NextLive)

(***************************************************************************)
(* Properties of api_get_transcripts, checked under Spec.                  *)
(***************************************************************************)

\* The positions of `list` whose entry came from call i.
EntriesOf(list, i) == {j \in 1..Len(list) : list[j].of = i}

\* as_completed is exhausted: every future was yielded to the loop.
AllCollected == pc \in {"running", "done"} /\ \A i \in 1..N : future[i].yielded

\* C1: when every future of a batch of N videos was collected,
\* len(results) + len(errors) = N and every submitted descriptor has exactly
\* one entry, in exactly one of the two lists; an empty list is answered
\* with both lists empty.
C1_Cardinality ==
    /\ AllCollected =>
          /\ Len(results) + Len(errors) = N
          /\ \A i \in 1..N :
                Cardinality(EntriesOf(results, i)) + Cardinality(EntriesOf(errors, i)) = 1
    /\ pc = "done" /\ N = 0 => results = <<>> /\ errors = <<>>

\* A batch of two videos with the same id, one in each list.
C1_Witness ==
    /\ pc = "done"
    /\ N = MaxVideos
    /\ videos[1].id = videos[N].id
    /\ Len(results) = 1
    /\ Len(errors) = N - 1

\* The future of call i holds an exception.
HasRaised(i) == future[i].state = "FINISHED" /\ future[i].outcome.kind = "exception"

\* The future of call i holds a tuple with a transcript.
HasSucceeded(i) ==
    /\ future[i].state = "FINISHED"
    /\ future[i].outcome.kind = "result"
    /\ future[i].outcome.transcript # <<>>

C3_InputOrder ==
    \A j \in 1..Len(results) : \A k \in 1..Len(results) :
        j < k => results[j].of < results[k].of

\* The calls whose future holds a tuple with a transcript.
Succeeded == {i \in 1..Len(future) : HasSucceeded(i)}

\* C11: the answer is a failure (400) exactly when no video succeeded, and
\* then carries one diagnostic per submitted video; otherwise it is a
\* success (200) whose errors hold one entry per video that failed and none
\* for one that succeeded, whose count is the number of successes and whose
\* total is the number submitted.
C11_Report ==
    pc = "done" =>
        /\ response.status = (IF Succeeded = {} THEN 400 ELSE 200)
        /\ response.status = 400 =>
              /\ Len(response.errors) = N
              /\ \A i \in 1..N : Cardinality(EntriesOf(response.errors, i)) = 1
        /\ response.status = 200 =>
              /\ response.count = Cardinality(Succeeded)
              /\ response.total = N
              /\ Len(response.errors) = N - Cardinality(Succeeded)
              /\ \A i \in 1..N :
                    Cardinality(EntriesOf(response.errors, i)) =
                        (IF i \in Succeeded THEN 0 ELSE 1)

\* A partial success: two videos, one transcript, one diagnostic.
C11_Witness ==
    /\ pc = "done"
    /\ N = 2
    /\ response.status = 200
    /\ response.count = 1
    /\ Len(response.errors) = 1
    /\ response.errors[1].error.msg = RateLimitedMsg

\* A batch in which no video succeeded: the failure with both diagnostics.
C11_WitnessFailure ==
    /\ pc = "done"
    /\ N = 2
    /\ response.status = 400
    /\ Len(response.errors) = 2

(***************************************************************************)
(* Properties of get_video_transcript, checked under SpecFetch (one call,  *)
(* any files) and SpecClassify (one call, any diagnostics).                *)
(***************************************************************************)

\* Call i is about to return a tuple.
Returning(i) == call[i].pos = "return" /\ call[i].ret.kind = "result"

\* C4: when get_video_transcript returns for video V, no file whose name
\* starts with yt_transcript_V remains.  The returns of lines 217-254 and of
\* line 272 do not reach the cleanup of lines 276-281, so this is violated.
C4_NoTempFileLeft ==
    \A i \in 1..Len(call) : Returning(i) => GlobNames(fs, videos[i].id) = {}

\* The language-tagged candidates of the lookup.
TaggedSuffixes == {LangVtt(RU), LangVtt(EN)}

\* C5: the file the lookup reads is the untagged {base}.vtt only when no
\* language-tagged candidate exists.  The inner loop tries '.vtt' right
\* after '.ru.vtt', before '.en.vtt', so this is violated.
C5_TaggedBeforeUntagged ==
    \A i \in 1..Len(call) :
        call[i].pos = "remove" /\ LookupOrder[call[i].cand] = VttExt =>
            \A suffix \in TaggedSuffixes : ~Exists(fs, TempName(videos[i].id) \o suffix)

\* The markers of each rule, as lines 217, 225, 233 and 241-246 test them.
BlockedMarker(stderr) == In("Sign in to confirm", stderr) \/ InLower("captcha", stderr)

RateLimitMarker(stderr) == InLower("rate limit", stderr) \/ In("429", stderr)

AuthMarker(stderr) == InLower("cookies", stderr) /\ InLower("error", stderr)

OutdatedMarker(stderr) ==
    \E m \in {"found 0 sig function possibilities", "Signature solving failed",
              "n challenge solving failed", "Only images are available"} : In(m, stderr)

\* C6: the tuple a call returns is that of the first rule, in the order
\* Blocked, RateLimited, AuthFailure, ToolOutdated, whose markers are in the
\* stderr of the last download invocation; with none of them it is a
\* success or 'not found'.  The lookup is reached with no marker only.
C6_ClassifierPrecedence ==
    \A i \in 1..Len(call) :
        LET c == call[i]
            msg == c.ret.error.msg
        IN /\ Returning(i) =>
                /\ BlockedMarker(c.stderr) => msg = BlockedMsg
                /\ ~BlockedMarker(c.stderr) /\ RateLimitMarker(c.stderr) =>
                      msg = RateLimitedMsg
                /\ ~BlockedMarker(c.stderr) /\ ~RateLimitMarker(c.stderr)
                      /\ AuthMarker(c.stderr) => msg = AuthFailureMsg
                /\ ~BlockedMarker(c.stderr) /\ ~RateLimitMarker(c.stderr)
                      /\ ~AuthMarker(c.stderr) /\ OutdatedMarker(c.stderr) =>
                      msg = ToolOutdatedMsg
                /\ ~BlockedMarker(c.stderr) /\ ~RateLimitMarker(c.stderr)
                      /\ ~AuthMarker(c.stderr) /\ ~OutdatedMarker(c.stderr) =>
                      \/ msg = "" /\ c.ret.transcript # <<>>
                      \/ msg = NoCaptionsMsg /\ c.ret.transcript = <<>>
           /\ c.pos \in {"probe", "open", "remove", "success", "glob", "unlink", "warn"} =>
                ~(BlockedMarker(c.stderr) \/ RateLimitMarker(c.stderr)
                    \/ AuthMarker(c.stderr) \/ OutdatedMarker(c.stderr))

\* A nonzero exit whose stderr has the markers of RateLimited, AuthFailure
\* and ToolOutdated at once, returned as RateLimited.
C6_Witness ==
    \E i \in 1..Len(call) :
        /\ Returning(i)
        /\ call[i].code # 0
        /\ In("429", call[i].stderr)
        /\ AuthMarker(call[i].stderr)
        /\ call[i].ret.error.msg = RateLimitedMsg

\* The texts that differ from stderr in the case of their letters only:
\* the same phrases, each in any of its spellings.
CaseVariants(stderr) ==
    LET spellings == {m \in Markers : \E x \in stderr : Lower(m) = Lower(x)}
        lowered(t) == {Lower(m) : m \in t}
    IN {t \in SUBSET spellings : lowered(t) = lowered(stderr)}

\* The rule whose tuple call i is about to return, read off the error text.
ReturnedRule(i) ==
    LET msg == call[i].ret.error.msg IN
    CASE msg = BlockedMsg -> "Blocked"
      [] msg = RateLimitedMsg -> "RateLimited"
      [] msg = AuthFailureMsg -> "AuthFailure"
      [] msg = ToolOutdatedMsg -> "ToolOutdated"
      [] OTHER -> "none"

\* C21: the classification does not depend on letter case: the rule a call
\* returns for its stderr is the rule of every text that differs from it in
\* case only.  'Sign in to confirm' (line 218) and the four phrases of
\* lines 243-246 are looked for in stderr as written, not in
\* stderr.lower(), so this is violated.
C21_CaseBlind ==
    \A i \in 1..Len(call) :
        Returning(i) =>
            \A t \in CaseVariants(call[i].stderr) : FailureRule(t) = ReturnedRule(i)

\* The phrases the rules look for in stderr as written, in lower case.
AsWritten ==
    {"sign in to confirm", "found 0 sig function possibilities",
     "signature solving failed", "n challenge solving failed",
     "only images are available"}

\* What does hold: a text with none of the phrases that are matched as
\* written is classified as every case variant of it is.
CaseBlindForLoweredRules ==
    \A i \in 1..Len(call) :
        Returning(i) /\ (\A m \in call[i].stderr : Lower(m) \notin AsWritten) =>
            \A t \in CaseVariants(call[i].stderr) : FailureRule(t) = ReturnedRule(i)

\* Call i has built preferred_langs and not yet returned.
InLoopOrAfter(i) == call[i].pos \notin {"queued", "detect", "done"}

\* The download invocations of call i so far follow preferred_langs one
\* language at a time, none comes after an exit code 0, a timeout counts as
\* a nonzero exit, and while the last one failed and a language is left the
\* call is about to invoke the downloader for that language.
C7_Order(i) ==
    LET c == call[i]
        n == Len(c.runs)
    IN /\ n <= Len(c.preferred_langs)
       /\ \A j \in 1..n : c.runs[j].sub_lang = c.preferred_langs[j]
       /\ \A j \in 1..(n - 1) : c.runs[j].code # 0
       /\ \A j \in 1..n : c.runs[j].kind # "exit" => c.runs[j].code # 0
       /\ IF n = 0 \/ (c.runs[n].code # 0 /\ n < Len(c.preferred_langs))
          THEN c.pos = "download" /\ c.k = n + 1
          ELSE c.pos # "download"

\* A step that makes a download invocation of call i leaves the call
\* running, in the loop or right after it.
C7_NoRaise(i) ==
    (Len(call') = Len(call) /\ Len(call'[i].runs) > Len(call[i].runs)) =>
        /\ call'[i].pos \in {"download", "report"}
        /\ future'[i] = future[i]

\* C7: the download invocations of a call are issued one language at a
\* time in the order of preferred_langs; none is issued after an exit code
\* 0; a nonzero exit or a timeout for language k is followed by the
\* invocation for language k+1 if there is one; a failed or timed-out
\* invocation never makes the call raise.
C7_DownloadLoop ==
    /\ [](\A i \in 1..Len(call) : InLoopOrAfter(i) => C7_Order(i))
    /\ [][\A i \in 1..Len(call) : C7_NoRaise(i)]_vars

\* Three languages: the first invocation timed out, the second exited
\* nonzero, the third exited with 0 and ended the loop.
C7_Witness ==
    \E i \in 1..Len(call) :
        /\ call[i].pos = "report"
        /\ Len(call[i].runs) = 3
        /\ call[i].runs[1].kind = "timeout"
        /\ call[i].runs[2].kind = "exit"
        /\ call[i].runs[2].code # 0
        /\ call[i].runs[3].code = 0

\* The list the spec describes for a detected language: the language, if
\* any, then en and ru without it.
PreferenceChain(lang) ==
    (IF lang # <<>> THEN <<lang>> ELSE <<>>)
        \o SelectSeq(<<EN, RU>>, LAMBDA l : l # lang)

\* C17: preferred_langs is the detected language first when it is not
\* empty, then en, ru, every language at most once, so it has 2 or 3
\* entries, and a call makes at most one download invocation per language.
C17_PreferenceList ==
    \A i \in 1..Len(call) :
        InLoopOrAfter(i) =>
            LET c == call[i] IN
            /\ c.preferred_langs = PreferenceChain(c.lang)
            /\ Len(c.preferred_langs) \in 2..3
            /\ \A j \in 1..Len(c.preferred_langs) : \A k \in 1..Len(c.preferred_langs) :
                  c.preferred_langs[j] = c.preferred_langs[k] => j = k
            /\ \A j \in 1..Len(c.runs) : \A k \in 1..Len(c.runs) :
                  c.runs[j].sub_lang = c.runs[k].sub_lang => j = k

\* ru was detected, in an output with blank lines around it, and both
\* languages of the list [ru, en] have been tried.
C17_Witness ==
    \E i \in 1..Len(call) :
        /\ call[i].lang = RU
        /\ call[i].preferred_langs = <<RU, EN>>
        /\ Len(call[i].runs) = 2
        /\ call[i].pos = "report"

\* C18: when the detection invocation ends with a nonzero exit code, the
\* call goes on with an empty detected language whatever the invocation
\* printed, and preferred_langs is [en, ru].  Line 173 drops the code and
\* lines 180-184 read the output of a failed invocation as that of a
\* successful one, so this is violated.
C18_FailedDetectionIsEmpty ==
    \A i \in 1..Len(call) :
        InLoopOrAfter(i) /\ call[i].lang_code # 0 =>
            /\ call[i].lang = <<>>
            /\ call[i].preferred_langs = <<EN, RU>>

\* What does hold: a failed detection does not end the call, which goes on
\* to the download loop with the list built from whatever was printed.
FailedDetectionGoesOn ==
    \A i \in 1..Len(call) :
        InLoopOrAfter(i) /\ call[i].lang_code # 0 =>
            /\ call[i].preferred_langs = PreferenceChain(call[i].lang)
            /\ call[i].runs = <<>> => call[i].pos = "download"

\* The language of the last download invocation of call i.
LastLang(i) == call[i].runs[Len(call[i].runs)].sub_lang

\* The last download invocation of call i exited with code zero, its
\* stderr matches no failure rule, and the caption file it wrote for the
\* language it requested is there, with a non-empty cleaned text.
DownloadedCaptions(i) ==
    LET c == call[i]
        path == TempName(videos[i].id) \o LangVtt(LastLang(i))
    IN /\ c.runs # <<>>
       /\ c.code = 0
       /\ FailureRule(c.stderr) = "none"
       /\ Exists(fs, path)
       /\ FileAt(fs, path).by = i
       /\ CleanedFile[FileAt(fs, path).content] # <<>>

\* C22: a call whose download invocation exited with code zero after
\* writing a caption file for the requested language, with a non-empty
\* cleaned text and no failure rule matching, returns a success: its lookup
\* does not end with that file unread.  The lookup of lines 257-258 tries
\* the names for ru and en only, so the file of any other detected language
\* is never read and is deleted by the cleanup: this is violated.
C22_DownloadedIsReturned ==
    \A i \in 1..Len(call) :
        call[i].pos = "glob" => ~DownloadedCaptions(i)

\* What does hold: the same for the languages ru and en.
DownloadedRuEnIsReturned ==
    \A i \in 1..Len(call) :
        call[i].pos = "glob" /\ call[i].runs # <<>> /\ LastLang(i) \in {RU, EN} =>
            ~DownloadedCaptions(i)

\* Call i is about to return a transcript.
ReturningSuccess(i) == Returning(i) /\ call[i].ret.transcript # <<>>

\* C16: get_video_transcript returns a success only when its final
\* download invocation exited with code zero (so a call all of whose
\* download invocations exited nonzero returns a failure).  `code` is not
\* read after the loop of lines 195-206: the lookup of lines 256-274 runs
\* whatever it is, so this is violated.
C16_SuccessNeedsExitZero ==
    \A i \in 1..Len(call) :
        ReturningSuccess(i) =>
            /\ call[i].code = 0
            /\ call[i].runs # <<>>
            /\ call[i].runs[Len(call[i].runs)].code = 0

\* What does hold: a success carries the non-empty cleaned text of a caption
\* file, whatever the exit codes were.
SuccessNeedsCaptionText ==
    \A i \in 1..Len(call) :
        ReturningSuccess(i) =>
            /\ call[i].ret.transcript = clean_vtt_content(call[i].content)
            /\ call[i].ret.error = NoError

\* The events call i has put so far, in the order it put them: the queue is
\* first-in first-out and is emptied only into the end of log_messages.
EventsOf(i) == SelectSeq(log_messages \o progress_queue, LAMBDA e : e.of = i)

Terminal == {"success", "error", "warning"}

\* The future of call i holds a tuple, or is about to.
HasReturned(i) ==
    \/ Returning(i)
    \/ future[i].state = "FINISHED" /\ future[i].outcome.kind = "result"

\* C8: the 'status' event of a fetch precedes every other event of that
\* fetch, a fetch puts at most one terminal event (success, error, warning)
\* and nothing after it, and a fetch that returns has put exactly one,
\* whatever the other calls of the batch do in between.
C8_EventOrder ==
    \A i \in 1..Len(call) :
        LET ev == EventsOf(i)
            terminals == {j \in 1..Len(ev) : ev[j].type \in Terminal}
        IN /\ call[i].pos = "queued" => ev = <<>>
           /\ ev # <<>> => ev[1].type = "status"
           /\ \A j \in 2..Len(ev) : ev[j].type # "status"
           /\ Cardinality(terminals) <= 1
           /\ terminals # {} => terminals = {Len(ev)}
           /\ HasReturned(i) => Cardinality(terminals) = 1

\* Two fetches of different ids whose events interleave: the second starts
\* and ends between the first one's 'status' and its terminal event.
C8_Witness ==
    LET all == log_messages \o progress_queue
        at(t, i) == {j \in 1..Len(all) : all[j].type = t /\ all[j].of = i}
    IN /\ Len(call) = 2
       /\ videos[1].id # videos[2].id
       /\ HasReturned(1)
       /\ HasReturned(2)
       /\ \E a \in at("status", 1), b \in at("status", 2), c \in at("success", 2),
             d \in at("debug", 1), e \in at("error", 1) :
             a < b /\ b < c /\ c < d /\ d < e

(***************************************************************************)
(* Properties of the worker pool, checked under SpecCli (the width is      *)
(* what --workers gives) and under Spec (the width is 4).                  *)
(***************************************************************************)

\* max_workers of the pool of the batch that is running.
WidthInUse == IF cli_pc = "idle" THEN PoolWidth ELSE CliWidth

\* The calls in progress: started and not ended.
InProgress == {i \in 1..Len(call) : call[i].pos \notin {"queued", "done"}}

\* At every moment: the width is within 1..10, and is 4 when --workers is
\* not given; at most `width` calls are in progress; a call in progress is
\* run by one thread of the pool, and no thread runs two.
C13_Bounded ==
    /\ WidthInUse \in 1..10
    /\ cli_pc # "idle" /\ cli_args.workers = DefaultWorkers => WidthInUse = 4
    /\ Cardinality(InProgress) <= WidthInUse
    /\ \A i \in InProgress : future[i].state = "RUNNING" /\ future[i].worker \in 1..WidthInUse
    /\ \A i \in InProgress : \A j \in InProgress : future[i].worker = future[j].worker => i = j

\* A thread stays with the call it runs until that call has ended.
C13_ToCompletion ==
    \A i \in 1..Len(future) :
        (Len(future') = Len(future) /\ future[i].state = "RUNNING") =>
            \/ future'[i].state = "FINISHED"
            \/ future'[i].state = "RUNNING" /\ future'[i].worker = future[i].worker

\* C13: the number of get_video_transcript calls in progress never exceeds
\* the pool width, the width is within 1..10 (4 by default) whatever
\* --workers asks for, and each worker thread runs one call at a time, to
\* its end, before it takes the next video.
C13_BoundedPool == []C13_Bounded /\ [][C13_ToCompletion]_vars

\* --workers 0 gives a pool of one thread: the second video waits while the
\* first is fetched.
C13_Witness ==
    /\ cli_pc = "download"
    /\ cli_args.workers = 0
    /\ N = 2
    /\ future[1].state = "RUNNING"
    /\ future[2].state = "PENDING"
    /\ ~ENABLED CliBegin(2)

\* The one thread took the second video after it ended the first.
C13_WitnessNext ==
    /\ cli_pc = "download"
    /\ cli_args.workers = 0
    /\ N = 2
    /\ future[1].state = "FINISHED"
    /\ future[2].state = "RUNNING"
    /\ future[2].worker = future[1].worker

\* The files call i is about to read or delete: the candidate it found,
\* and the leftovers its cleanup listed.
AboutToTouch(i) ==
    {f \in fs : \/ call[i].pos \in {"open", "remove"} /\ f.name = VttPath(i)
                \/ call[i].pos = "unlink" /\ f.name \in call[i].todo}

\* Call i touches no file that another call in progress wrote.
OwnFilesOnly(i) == \A f \in AboutToTouch(i) : f.by = i \/ f.by \notin InProgress

\* C14: two calls that run at the same time never read or delete the same
\* file path, whatever the list.  temp_file is built from the video id
\* alone, so two calls for one id share every path, and the cleanup pattern
\* yt_transcript_{id}* also matches the files of an id that {id} is a prefix
\* of: this is violated.
C14_OwnPathsOnly == \A i \in 1..Len(call) : OwnFilesOnly(i)

\* The ids of the list are pairwise different and none is a prefix of
\* another.
UnrelatedIds ==
    \A i \in 1..N : \A j \in 1..N :
        i # j => ~startswith(videos[i].id, videos[j].id)

\* What does hold: calls for unrelated ids touch their own files only.
OwnPathsForUnrelatedIds == UnrelatedIds => C14_OwnPathsOnly

\* The value call i is about to return has exactly one of transcript and
\* error non-empty.
ExactlyOne(i) ==
    LET r == call[i].ret IN
    /\ (r.transcript # <<>>) # (r.error.msg # "")
    /\ r.transcript # <<>> => r.error = NoError

\* Call i is about to return the no-captions outcome, its 'warning' event
\* put last.
NoCaptionsOutcome(i) ==
    LET ev == EventsOf(i) IN
    /\ call[i].ret.transcript = <<>>
    /\ call[i].ret.error.msg = NoCaptionsMsg
    /\ ev # <<>>
    /\ ev[Len(ev)].type = "warning"

C20_EveryEventLogged ==
    pc = "done" /\ N > 0 =>
        /\ progress_queue = <<>>
        /\ \A i \in 1..N : \E j \in 1..Len(log_messages) :
              log_messages[j].of = i /\ log_messages[j].type = "status"

\* What does hold: events are left in the queue only when a future raised
\* (the one collected last), and those left are the newest.
EveryEventLoggedUnlessRaised ==
    pc = "done" /\ N > 0 /\ progress_queue # <<>> => \E i \in 1..N : HasRaised(i)

\* C23: a transcript a call returns is the cleaned content of a caption
\* file written by a download invocation of that same call, never of a
\* file an earlier fetch of the same video left behind.  The returns of
\* lines 224-254 skip the cleanup and the return of line 272 removes only
\* the file it read, so a later call for the id finds what is left: this is
\* violated.
C23_OwnFileOnly ==
    \A i \in 1..Len(call) : ReturningSuccess(i) => call[i].read_by = i

\* The case of a later fetch: call 1 has ended, every download invocation
\* of call 2 failed, and call 2 returns the text of a file call 1 wrote.
LeftBehindIsReturned ==
    /\ Len(future) = 2
    /\ future[1].state = "FINISHED"
    /\ ReturningSuccess(2)
    /\ call[2].read_by = 1
    /\ \A j \in 1..Len(call[2].runs) : call[2].runs[j].code # 0

\* What does hold: a call for an id that no other call of the batch has
\* returns the text of a file it wrote itself.
OwnFileForUnrelatedIds == UnrelatedIds => C23_OwnFileOnly

(***************************************************************************)
(* Properties of get_channel_videos, checked under SpecList.               *)
(***************************************************************************)

\* get_channel_videos has returned.
HasListed == cli_pc \in {"returned", "failed", "listed"}

\* A listing invocation that exited nonzero gives an empty list, and the
\* caller of an empty list reports the failure and goes no further.
FailedListingIsHard ==
    /\ HasListed /\ cli_args.code # 0 => cli_out.videos = <<>>
    /\ cli_pc \in {"failed", "listed"} => (cli_pc = "failed" <=> cli_out.videos = <<>>)

\* The statement of C24 as first put: the end index get_channel_videos
\* passes to the downloader equals limit, so at most limit descriptors are
\* returned.  yt_transcripts.py passes str(limit * 2) (line 90), taking more
\* than asked for so that its caller can filter, and returns everything it
\* parsed, so this is violated.
C24_BoundedByLimit ==
    /\ HasListed =>
          /\ cli_out.playlist_end = cli_args.limit
          /\ Len(cli_out.videos) <= cli_args.limit
    /\ FailedListingIsHard

\* C24: the end index get_channel_videos passes to the downloader is limit
\* in app.py and twice limit in yt_transcripts.py, and the list returned is
\* never longer than the end index; a listing invocation that exits nonzero
\* gives an empty result, and the caller of an empty result reports a hard
\* failure.
C24_BoundedByEndIndex ==
    /\ HasListed =>
          /\ cli_out.playlist_end =
                (IF cli_args.script = "app" THEN cli_args.limit ELSE 2 * cli_args.limit)
          /\ Len(cli_out.videos) <= cli_out.playlist_end
    /\ FailedListingIsHard

\* get_channel_videos of yt_transcripts.py has returned more descriptors
\* than its limit, as many as the end index allows.
C24_Witness ==
    /\ HasListed
    /\ cli_args.script = "yt_transcripts"
    /\ cli_args.code = 0
    /\ Len(cli_out.videos) > cli_args.limit
    /\ Len(cli_out.videos) = cli_out.playlist_end

\* The records the listing invocation printed.
PrintedRecords ==
    LET n == IF Len(cli_args.records) < cli_out.playlist_end
             THEN Len(cli_args.records) ELSE cli_out.playlist_end
    IN SubSeq(cli_args.records, 1, n)

\* The descriptor of an entry: NA, a missing value, is 0.
DescriptorOf(e) ==
    [id |-> e.id, title |-> e.title,
     duration |-> IF e.duration = None THEN 0 ELSE e.duration,
     views |-> IF e.views = None THEN 0 ELSE e.views,
     url |-> e.id]

\* One descriptor for every record that is an entry, in the order of the
\* records, none for the others.
RECURSIVE DescriptorsOf(_)
DescriptorsOf(records) ==
    IF records = <<>> THEN <<>>
    ELSE (IF Head(records).entry # <<>> THEN <<DescriptorOf(Head(records).entry[1])>>
          ELSE <<>>) \o DescriptorsOf(Tail(records))

\* get_channel_videos of yt_transcripts.py has returned the parse of a
\* listing that exited with code zero.
HasParsed == HasListed /\ cli_args.script = "yt_transcripts" /\ cli_args.code = 0

\* C25: the parse yields, in input order, exactly one descriptor for every
\* record that carries id, title, duration and views, and none for a
\* malformed record, which neither stops the parse nor fails the listing.
\* The line is split at every '|' (line 103), so a title that contains one
\* shifts the fields: the record is dropped, or parsed with a wrong title,
\* duration and view count.  This is violated.
C25_ParsesEveryRecord ==
    HasParsed => cli_out.videos = DescriptorsOf(PrintedRecords)

\* No title of the channel contains the separator.
PlainTitles ==
    \A j \in 1..Len(cli_args.records) :
        cli_args.records[j].entry # <<>> =>
            ~contains(cli_args.records[j].entry[1].title, <<Sep>>)

\* What does hold: the same for channels whose titles have no '|'.
ParsesPlainRecords == HasParsed /\ PlainTitles => C25_ParsesEveryRecord

(***************************************************************************)
(* Termination, checked under SpecLive.                                    *)
(***************************************************************************)

\* A call in progress has made one detection invocation once it is past
\* the detection, none before, and at most three download invocations.
InvocationsBounded ==
    \A i \in 1..Len(call) :
        /\ call[i].detects = (IF InLoopOrAfter(i) THEN 1 ELSE 0)
        /\ Len(call[i].runs) <= 3

\* A call in progress can always take its next step, whatever the other
\* calls are doing.
NeverWaits == \A i \in InProgress : ENABLED CallStep(i, LiveTool)

\* C15: provided every invocation returns, every call ends after one
\* detection invocation and at most three download invocations, no call
\* waits for another, and the batch answers.
C15_Terminates ==
    /\ []InvocationsBounded
    /\ []NeverWaits
    /\ <>(pc = "done" /\ \A i \in 1..N : call[i].pos = "done")

\* Two calls in progress at once, one of them after three download
\* invocations that all failed.
C15_Witness ==
    /\ N = 2
    /\ InProgress = {1, 2}
    /\ Len(call[1].runs) = 3
    /\ call[1].runs[3].code # 0
    /\ call[1].pos = "report"
    /\ call[2].pos = "download"

(***************************************************************************)
(* Properties of filter_videos, checked under SpecFilter.                  *)
(***************************************************************************)

\* A threshold that was passed, whatever its value.
Given(x) == x # None

\* Video v satisfies every threshold of `a` that was passed (minutes are
\* compared as seconds).
Satisfies(v, a) ==
    /\ Given(a.max_duration_min) => v.duration <= a.max_duration_min * 60
    /\ Given(a.min_duration_min) => v.duration >= a.min_duration_min * 60
    /\ Given(a.min_views) => v.views >= a.min_views

\* `out` is in descending order of `key`, equal keys in input order.
SortedDescStable(out, key) ==
    \A j \in 1..Len(out) : \A k \in 1..Len(out) :
        j < k => \/ out[j][key] > out[k][key]
                 \/ out[j][key] = out[k][key] /\ out[j].id < out[k].id

\* The returned list holds each input video that passes at most once, and
\* nothing else.
NoRepeats(out) == \A j \in 1..Len(out) : \A k \in 1..Len(out) : out[j] = out[k] => j = k

Range(seq) == {seq[j] : j \in 1..Len(seq)}

\* C12: filter_videos returns exactly the input videos that satisfy every
\* threshold that was passed, the value 0 included, sorted by the requested
\* key descending with ties in input order.  `if max_duration_min:` takes 0
\* for "not passed", so this is violated.
C12_FilterExact ==
    cli_pc = "returned" =>
        /\ Range(cli_out) = {v \in Range(cli_args.videos) : Satisfies(v, cli_args)}
        /\ NoRepeats(cli_out)
        /\ SortedDescStable(cli_out, cli_args.sort_by)

\* What does hold: the same with a threshold of 0 taken as not passed.
SatisfiesTruthy(v, a) ==
    /\ Truthy(a.max_duration_min) => v.duration <= a.max_duration_min * 60
    /\ Truthy(a.min_duration_min) => v.duration >= a.min_duration_min * 60
    /\ Truthy(a.min_views) => v.views >= a.min_views

FilterExactButZero ==
    cli_pc = "returned" =>
        /\ Range(cli_out) = {v \in Range(cli_args.videos) : SatisfiesTruthy(v, cli_args)}
        /\ NoRepeats(cli_out)
        /\ SortedDescStable(cli_out, cli_args.sort_by)

\* The example: a maximum of 15 minutes (900 s) excludes the 1200 s entry only.
FilterExample ==
    (/\ cli_pc = "returned"
     /\ cli_args.videos = ExampleListing
     /\ cli_args.max_duration_min = 15
     /\ ~Truthy(cli_args.min_duration_min)
     /\ ~Truthy(cli_args.min_views)) =>
        {v.duration : v \in Range(cli_out)} = {30, 300, 600}

(***************************************************************************)
(* Properties of clean_vtt_content, checked under SpecClean.               *)
(***************************************************************************)

\* The cleaned, non-empty content lines of a text in input order, repeats
\* included: what the loop sees before it deduplicates.
RECURSIVE ContentLinesFrom(_, _)
ContentLinesFrom(lines, i) ==
    IF i > Len(lines) THEN <<>>
    ELSE IF SkippedLine(lines[i]) \/ CleanLine(lines[i]) = <<>>
         THEN ContentLinesFrom(lines, i + 1)
         ELSE <<CleanLine(lines[i])>> \o ContentLinesFrom(lines, i + 1)

ContentLines(content) == ContentLinesFrom(split(content, NL), 1)

\* The elements of s at the positions idx, in increasing position.
RECURSIVE AtPositions(_, _)
AtPositions(s, idx) ==
    IF idx = {} THEN <<>>
    ELSE <<s[SetMin(idx)]>> \o AtPositions(s, idx \ {SetMin(idx)})

\* Each distinct element of s once, at the place of its first occurrence.
FirstOccurrences(s) ==
    AtPositions(s, {i \in 1..Len(s) : \A j \in 1..(i - 1) : s[j] # s[i]})

ThreeWindows == join(<<NL>>, <<TimingLine, CueHi, TimingLine, CueHi, TimingLine, CueHi>>)

\* C9: the text returned by clean_vtt_content is the space-joined sequence of
\* the distinct non-empty cleaned content lines of its input, each exactly
\* once and in the order of first occurrence; a cue repeated over three
\* timing windows is returned once.
C9_DedupFirstSeen ==
    clean_pc # "input" =>
        /\ cleaned = join(<<" ">>, FirstOccurrences(ContentLines(vtt_content)))
        /\ vtt_content = ThreeWindows => cleaned = CueHi

\* C9 witness: the input with one cue repeated over three timing windows has
\* been cleaned, and the text returned is that cue once.
C9_Witness ==
    /\ clean_pc = "cleaned"
    /\ vtt_content = ThreeWindows
    /\ cleaned = CueHi

\* Text on which a second application has nothing to do: no header keyword
\* at its start, no time-range arrow and no <...> tag in it.
HasTag(c) ==
    \E i \in 1..Len(c) : \E j \in (i + 2)..Len(c) :
        /\ c[i] = "<"
        /\ c[j] = ">"
        /\ \A k \in (i + 1)..(j - 1) : c[k] # ">"

AlreadyClean(c) ==
    /\ ~startswith(c, WEBVTT)
    /\ ~startswith(c, KindPrefix)
    /\ ~startswith(c, LanguagePrefix)
    /\ ~startswith(c, NotePrefix)
    /\ ~contains(c, Arrow)
    /\ ~HasTag(c)

\* C10 as stated: clean_vtt_content(clean_vtt_content(r)) = clean_vtt_content(r)
\* for every raw input r.
C10_Idempotent == clean_pc = "recleaned" => recleaned = cleaned

\* C10 amended: the second application returns the cleaned text unchanged
\* exactly when that text does not start with WEBVTT, Kind:, Language: or
\* NOTE and contains neither --> nor a <...> tag.
C10_IdempotentOnCleanText ==
    clean_pc = "recleaned" => (recleaned = cleaned <=> AlreadyClean(cleaned))

\* C10 witness: a caption file with header, timing line and tagged cue was
\* cleaned to non-empty text that the second application left unchanged.
C10_Witness ==
    /\ clean_pc = "recleaned"
    /\ vtt_content = VttHello
    /\ cleaned # <<>>
    /\ recleaned = cleaned

====
